---- MODULE Spec2Model ----
\* Model of cudalis' version resolver (src/src/versions.rs): the artifact-line
\* parser, the filter chain of resolve_versions and resolve_image_tag.
\* A Rust String is modelled as a sequence of one-character strings, so that
\* split / replace / contains / starts_with / cmp are computed character by
\* character as the standard library computes them.
EXTENDS Integers, Sequences, FiniteSets, TLC

VARIABLES
    pc,              \* position of the call being modelled
    tag,             \* parse_from_html_tag: the input line
    parsed,          \* parse_from_html_tag: its outcome
    computer_os,     \* env::consts::OS of the build
    computer_arch,   \* env::consts::ARCH of the build
    python_version,  \* resolve_versions: Option<String> constraint
    torch_version,   \* resolve_versions: Option<String> constraint
    cuda_version,    \* resolve_versions: Option<String> constraint
    versions,        \* resolve_versions: the local `versions` vector
    stages,          \* values `versions` held after each stage (C0, C1, ...)
    verbose,         \* VersionResolver.verbose
    version,         \* resolve_image_tag: the &Version argument
    response,        \* resolve_image_tag: the decoded registry document
    fetches,         \* number of tag-registry GETs issued
    image,           \* resolve_image_tag: returned String
    semantic_version \* get_*_semantic_version: returned String

vars == <<pc, tag, parsed, computer_os, computer_arch, python_version,
          torch_version, cuda_version, versions, stages, verbose, version,
          response, fetches, image, semantic_version>>

-----------------------------------------------------------------------------
\* String literals of the source.

Quote == "\""
Slash == "/"
Dash == "-"
Newline == "\n"
s_cpu == <<"c", "p", "u">>
s_cu == <<"c", "u">>
s_pypi_cudnn == <<"_", "p", "y", "p", "i", "_", "c", "u", "d", "n", "n">>
s_pct2B == <<"%", "2", "B">>
s_win == <<"w", "i", "n">>
s_windows == <<"w", "i", "n", "d", "o", "w", "s">>
s_macosx == <<"m", "a", "c", "o", "s", "x">>
s_macos == <<"m", "a", "c", "o", "s">>
s_manylinux == <<"m", "a", "n", "y", "l", "i", "n", "u", "x">>
s_linux == <<"l", "i", "n", "u", "x">>
s_amd64 == <<"a", "m", "d", "6", "4">>
s_x86_64 == <<"x", "8", "6", "_", "6", "4">>
s_arm64 == <<"a", "r", "m", "6", "4">>
s_aarch64 == <<"a", "a", "r", "c", "h", "6", "4">>
s_whl == <<".", "w", "h", "l">>
s_torch == <<"t", "o", "r", "c", "h">>
s_ubuntu == <<"u", "b", "u", "n", "t", "u">>
s_devel == <<"d", "e", "v", "e", "l">>
s_ubuntu_22_04 == <<"u", "b", "u", "n", "t", "u", ":", "2", "2", ".", "0", "4">>
s_nvidia_cuda == <<"n", "v", "i", "d", "i", "a", "/", "c", "u", "d", "a", ":">>
s_dot == <<".">>

-----------------------------------------------------------------------------
\* std::string operations, on sequences of characters.

\* Byte order of the characters that occur in compared strings (ASCII).
AsciiOrder == <<"%", "-", ".", "/", "0", "1", "2", "3", "4", "5", "6", "7",
                "8", "9", ":", "B", "_", "a", "b", "c", "d", "e", "f", "g",
                "h", "i", "j", "k", "l", "m", "n", "o", "p", "q", "r", "s",
                "t", "u", "v", "w", "x", "y", "z">>

Byte(c) == CHOOSE i \in 1..Len(AsciiOrder) : AsciiOrder[i] = c

Min(a, b) == IF a <= b THEN a ELSE b

\* Least element of a non-empty set of positions.
Least(S) == CHOOSE i \in S : \A j \in S : i <= j

\* String::cmp, byte-wise lexicographic: -1 less, 0 equal, 1 greater.
Cmp(a, b) ==
    LET differ == { i \in 1..Min(Len(a), Len(b)) : a[i] # b[i] }
    IN  IF differ = {}
        THEN IF Len(a) < Len(b) THEN -1 ELSE IF Len(a) > Len(b) THEN 1 ELSE 0
        ELSE IF Byte(a[Least(differ)]) < Byte(b[Least(differ)]) THEN -1 ELSE 1

\* Does pat occur in s at position i?
MatchAt(s, pat, i) ==
    /\ i + Len(pat) - 1 <= Len(s)
    /\ \A k \in 1..Len(pat) : s[i + k - 1] = pat[k]

\* str::starts_with
StartsWith(s, pat) == MatchAt(s, pat, 1)

\* Least position >= i at which pat occurs in s, 0 if none.
FindFrom(s, pat, i) ==
    LET hits == { j \in i..(Len(s) - Len(pat) + 1) : MatchAt(s, pat, j) }
    IN  IF hits = {} THEN 0 ELSE Least(hits)

\* str::contains
Contains(s, pat) == FindFrom(s, pat, 1) # 0

\* str::split(char).collect::<Vec<_>>(): the pieces between the separators.
Split(s, ch) ==
    LET seps == { i \in 1..Len(s) : s[i] = ch }
        n == Cardinality(seps)
        SepAt(k) == IF k = 0 THEN 0
                    ELSE IF k = n + 1 THEN Len(s) + 1
                    ELSE CHOOSE i \in seps : Cardinality({ j \in seps : j < i }) = k - 1
    IN  [k \in 1..(n + 1) |-> SubSeq(s, SepAt(k - 1) + 1, SepAt(k) - 1)]

\* str::split(&str).next(): the part before the first occurrence of pat.
SplitFirst(s, pat) ==
    LET at == FindFrom(s, pat, 1)
    IN  IF at = 0 THEN s ELSE SubSeq(s, 1, at - 1)

RECURSIVE ReplaceFrom(_, _, _, _)
ReplaceFrom(s, from, to, i) ==
    LET at == FindFrom(s, from, i)
    IN  IF at = 0 THEN SubSeq(s, i, Len(s))
        ELSE SubSeq(s, i, at - 1) \o to \o ReplaceFrom(s, from, to, at + Len(from))

\* str::replace: every non-overlapping occurrence, left to right.
Replace(s, from, to) == ReplaceFrom(s, from, to, 1)

-----------------------------------------------------------------------------
\* Version::parse_from_html_tag

None == [kind |-> "None"]
Panic == [kind |-> "Panic"]
Some(v) == [kind |-> "Some", value |-> v]

\* Mutant: the ".whl" suffix is left in place.
normalize_os_keeps_suffix(field) ==
    Replace(Replace(Replace(Replace(Replace(field,
        s_win, s_windows), s_macosx, s_macos), s_manylinux, s_linux),
        s_amd64, s_x86_64), s_arm64, s_aarch64)

\* The chain of replacements applied to the platform field.
normalize_os(field) ==
    Replace(Replace(Replace(Replace(Replace(Replace(field,
        s_win, s_windows), s_macosx, s_macos), s_manylinux, s_linux),
        s_amd64, s_x86_64), s_arm64, s_aarch64), s_whl, <<>>)

parse_from_html_tag(line) ==
    LET parts == Split(line, Quote)
    IN  IF Len(parts) < 2 THEN None                         \* parts.get(1)?
        ELSE
        LET href == parts[2]
        IN  IF ~StartsWith(href, s_cpu) /\ ~StartsWith(href, s_cu) THEN None
            ELSE
            LET segments == Split(href, Slash)
            IN  IF Len(segments) < 2 THEN Panic             \* segments[1]
                ELSE
                LET accelerator == Replace(segments[1], s_pypi_cudnn, <<>>)
                    package_parts == Split(segments[2], Dash)
                IN  IF Len(package_parts) < 2 THEN None     \* get(1)?
                    ELSE IF Len(package_parts) < 3 THEN None \* get(2)?
                    ELSE IF Len(package_parts) < 5 THEN None \* get(4)?
                    ELSE Some([name |-> package_parts[1],
                               torch |-> SplitFirst(package_parts[2], s_pct2B),
                               python |-> package_parts[3],
                               accelerator |-> accelerator,
                               os |-> normalize_os(package_parts[5])])

-----------------------------------------------------------------------------
\* Listing lines given to the parser.

MaxExtraFields == 1   \* dash-delimited fields after the fifth

s_anchor == <<"<", "a", " ", "h", "r", "e", "f", "=">>
s_href == <<"h", "r", "e", "f", "=">>
s_close == <<">">>
s_gpu == <<"g", "p", "u">>
s_cu117 == <<"c", "u", "1", "1", "7">>
s_cu118 == <<"c", "u", "1", "1", "8">>
s_cu92 == <<"c", "u", "9", "2">>
s_cu117_pypi_cudnn == <<"c", "u", "1", "1", "7", "_", "p", "y", "p", "i", "_", "c", "u", "d", "n", "n">>
s_torchvision == <<"t", "o", "r", "c", "h", "v", "i", "s", "i", "o", "n">>
s_1_12_0 == <<"1", ".", "1", "2", ".", "0">>
s_1_13_0 == <<"1", ".", "1", "3", ".", "0">>
s_1_13_1 == <<"1", ".", "1", "3", ".", "1">>
s_2_0_0 == <<"2", ".", "0", ".", "0">>
s_1_13_1_cu117 == <<"1", ".", "1", "3", ".", "1", "%", "2", "B", "c", "u", "1", "1", "7">>
s_cp310 == <<"c", "p", "3", "1", "0">>
s_cp39 == <<"c", "p", "3", "9">>
s_linux_x86_64 == <<"l", "i", "n", "u", "x", "_", "x", "8", "6", "_", "6", "4">>
s_linux_x86_64_whl == s_linux_x86_64 \o s_whl
s_win_amd64_whl == <<"w", "i", "n", "_", "a", "m", "d", "6", "4", ".", "w", "h", "l">>
s_windows_x86_64 == <<"w", "i", "n", "d", "o", "w", "s", "_", "x", "8", "6", "_", "6", "4">>
s_macosx_arm64_whl == <<"m", "a", "c", "o", "s", "x", "_", "1", "1", "_", "0", "_", "a", "r", "m", "6", "4", ".", "w", "h", "l">>
s_macos_aarch64 == <<"m", "a", "c", "o", "s", "_", "1", "1", "_", "0", "_", "a", "a", "r", "c", "h", "6", "4">>
s_manylinux_whl == <<"m", "a", "n", "y", "l", "i", "n", "u", "x", "1", "_", "x", "8", "6", "_", "6", "4", ".", "w", "h", "l">>
s_linux1_x86_64 == <<"l", "i", "n", "u", "x", "1", "_", "x", "8", "6", "_", "6", "4">>
s_extra == <<"x">>

RECURSIVE JoinWith(_, _)
\* The fields joined by the separator character.
JoinWith(fields, ch) ==
    IF Len(fields) = 0 THEN <<>>
    ELSE IF Len(fields) = 1 THEN fields[1]
    ELSE fields[1] \o <<ch>> \o JoinWith(Tail(fields), ch)

\* <a href="...">
AnchorLine(href) == s_anchor \o <<Quote>> \o href \o <<Quote>> \o s_close
\* href="..."
HrefLine(href) == s_href \o <<Quote>> \o href \o <<Quote>>

\* Raw accelerator directory, and the accelerator tag the spec gives it.
AcceleratorDirs ==
    { <<s_cpu, s_cpu>>, <<s_cu117, s_cu117>>, <<s_cu92, s_cu92>>,
      <<s_cu117_pypi_cudnn, s_cu117>> }
PackageNames == { s_torch, s_torchvision }
\* Raw version field, and the library version the spec gives it.
VersionFields ==
    { <<s_1_13_1, s_1_13_1>>, <<s_1_13_1_cu117, s_1_13_1>>, <<s_2_0_0, s_2_0_0>> }
PythonTags == { s_cp310, s_cp39 }
\* Raw platform field, and the os tag the spec gives it.
PlatformFields ==
    { <<s_linux_x86_64_whl, s_linux_x86_64>>,
      <<s_win_amd64_whl, s_windows_x86_64>>,
      <<s_macosx_arm64_whl, s_macos_aarch64>>,
      <<s_manylinux_whl, s_linux1_x86_64>> }

ExtraFields(k) == [i \in 1..k |-> s_extra]

\* The href A/N-V-P-X-F followed by k further dash fields.
ArtifactHref(a, n, v, p, x, f, k) ==
    a \o <<Slash>> \o JoinWith(<<n, v, p, x, f>> \o ExtraFields(k), Dash)

WellFormedLines ==
    { AnchorLine(ArtifactHref(a[1], n, v[1], p, p, f[1], k)) :
        a \in AcceleratorDirs, n \in PackageNames, v \in VersionFields,
        p \in PythonTags, f \in PlatformFields, k \in 0..MaxExtraFields }

Example1Line == HrefLine(ArtifactHref(s_cpu, s_torch, s_1_13_1, s_cp310, s_cp310, s_linux_x86_64_whl, 0))

\* Lines without two quote-delimited fields.
UnquotedLines == { <<>>, <<"<", "h", "t", "m", "l", ">">>, s_anchor \o s_cpu }
\* Quoted hrefs that start with neither accepted prefix.
OtherPrefixLines ==
    { AnchorLine(ArtifactHref(s_gpu, s_torch, s_1_13_1, s_cp310, s_cp310, s_linux_x86_64_whl, 0)),
      AnchorLine(<<>>), AnchorLine(s_torch) }
\* Accepted prefix, but no '/' in the href.
NoSlashLines == { AnchorLine(s_cpu), AnchorLine(s_cu117_pypi_cudnn), HrefLine(s_cu) }
\* Accepted prefix and a '/', but fewer than five dash fields in the filename.
ShortFilenameLines ==
    { AnchorLine(s_cpu \o <<Slash>>),
      AnchorLine(s_cpu \o <<Slash>> \o s_torch),
      AnchorLine(s_cpu \o <<Slash>> \o JoinWith(<<s_torch, s_1_13_1>>, Dash)),
      AnchorLine(s_cu117 \o <<Slash>> \o JoinWith(<<s_torch, s_1_13_1, s_cp310>>, Dash)),
      AnchorLine(s_cu117 \o <<Slash>> \o JoinWith(<<s_torch, s_1_13_1, s_cp310, s_cp310>>, Dash)) }

MalformedLines == UnquotedLines \cup OtherPrefixLines \cup NoSlashLines \cup ShortFilenameLines

ParserLines == WellFormedLines \cup { Example1Line } \cup MalformedLines

-----------------------------------------------------------------------------
\* Values of the variables a specification does not use.

NoParse == /\ tag = <<>>
           /\ parsed = None
NoResolve == /\ python_version = None
             /\ torch_version = None
             /\ cuda_version = None
             /\ versions = <<>>
             /\ stages = <<>>
NoImage == /\ version = None
           /\ response = None
           /\ fetches = 0
           /\ image = None
NoHost == /\ computer_os = <<>>
          /\ computer_arch = <<>>
          /\ verbose = FALSE

-----------------------------------------------------------------------------
\* The parser applied to one line.

InitParse ==
    /\ semantic_version = None
    /\ pc = "line"
    /\ tag \in ParserLines
    /\ parsed = None
    /\ NoHost /\ NoResolve /\ NoImage

\* One call of Version::parse_from_html_tag(tag).
ParseLine ==
    /\ pc = "line"
    /\ parsed' = parse_from_html_tag(tag)
    /\ pc' = IF parsed'.kind = "Panic" THEN "panic" ELSE "parsed"
    /\ UNCHANGED <<tag, computer_os, computer_arch, python_version,
                   torch_version, cuda_version, versions, stages, verbose,
                   version, response, fetches, image, semantic_version>>

NextParse == ParseLine

SpecParse == InitParse /\ [][NextParse]_vars

\* C1: parse_from_html_tag returns an artifact or None for every line and
\* never panics; in particular it returns None for every malformed line
\* (no two quoted fields, no '/', fewer than five dash fields, other prefix).
ParseIsTotal ==
    pc # "line" =>
        /\ parsed.kind \in {"Some", "None"}
        /\ tag \in MalformedLines => parsed = None

\* C2: a line whose first quoted field is A/N-V-P-X-F parses to name N, the
\* version before "%2B", python tag P, A without "_pypi_cudnn" and the
\* normalised platform field.
ParseWellFormed ==
    \A a \in AcceleratorDirs, n \in PackageNames, v \in VersionFields,
       p \in PythonTags, f \in PlatformFields, k \in 0..MaxExtraFields :
        \A line \in { AnchorLine(ArtifactHref(a[1], n, v[1], p, p, f[1], k)),
                      HrefLine(ArtifactHref(a[1], n, v[1], p, p, f[1], k)) } :
            (pc # "line" /\ tag = line) =>
                parsed = Some([name |-> n, torch |-> v[2], python |-> p,
                               accelerator |-> a[2], os |-> f[2]])

\* Example 1 of the spec has been parsed.
ParseWellFormedWitness ==
    /\ pc = "parsed"
    /\ tag = Example1Line
    /\ parsed = Some([name |-> s_torch, torch |-> s_1_13_1, python |-> s_cp310,
                      accelerator |-> s_cpu, os |-> s_linux_x86_64])

-----------------------------------------------------------------------------
\* VersionResolver: the filter chain of resolve_versions.

Range(seq) == { seq[i] : i \in 1..Len(seq) }

\* Mutant: one of the two substring tests suffices (|| for &&).
filter_versions_by_os_or_arch(vs) ==
    SelectSeq(vs, LAMBDA v : Contains(v.os, computer_os) \/ Contains(v.os, computer_arch))

\* versions.into_iter().filter(|v| v.os.contains(os) && v.os.contains(arch))
filter_versions_by_os_and_arch(vs) ==
    SelectSeq(vs, LAMBDA v : Contains(v.os, computer_os) /\ Contains(v.os, computer_arch))

RECURSIVE min_by(_, _)
\* Mutant: the earliest tag is pinned instead of the latest.
min_by(vs, field) ==
    IF Len(vs) = 1 THEN vs[1]
    ELSE LET best == min_by(SubSeq(vs, 1, Len(vs) - 1), field)
             last == vs[Len(vs)]
         IN  IF Cmp(last[field], best[field]) < 0 THEN last ELSE best

RECURSIVE max_by(_, _)
\* Iterator::max_by on a non-empty vector: the last of the maximal elements.
max_by(vs, field) ==
    IF Len(vs) = 1 THEN vs[1]
    ELSE LET best == max_by(SubSeq(vs, 1, Len(vs) - 1), field)
             last == vs[Len(vs)]
         IN  IF Cmp(last[field], best[field]) >= 0 THEN last ELSE best

\* Mutant: tags are compared for equality, as a strict matcher would.
filter_versions_by_equal_version(vs, specified_version, field) ==
    IF specified_version.kind = "Some"
    THEN SelectSeq(vs, LAMBDA v : v[field] = specified_version.value)
    ELSE IF Len(vs) > 0
    THEN LET latest_version == max_by(vs, field)[field]
         IN  SelectSeq(vs, LAMBDA v : v[field] = latest_version)
    ELSE <<>>

\* Mutant: only the first matching artifact is kept (find instead of filter).
filter_versions_first_match(vs, specified_version, field) ==
    LET wanted == IF specified_version.kind = "Some" THEN specified_version.value
                  ELSE IF Len(vs) > 0 THEN max_by(vs, field)[field]
                  ELSE <<>>
        kept == SelectSeq(vs, LAMBDA v : Contains(v[field], wanted))
    IN  IF Len(kept) = 0 THEN <<>> ELSE <<kept[1]>>

\* version_extractor is the name of the field it returns a reference to.
filter_versions_by_specified_version(vs, specified_version, field) ==
    IF specified_version.kind = "Some"
    THEN SelectSeq(vs, LAMBDA v : Contains(v[field], specified_version.value))
    ELSE IF Len(vs) > 0
    THEN LET latest_version == max_by(vs, field)[field]
         IN  SelectSeq(vs, LAMBDA v : Contains(v[field], latest_version))
    ELSE <<>>

RECURSIVE InsertDescending(_, _)
InsertDescending(sorted, v) ==
    IF Len(sorted) = 0 THEN <<v>>
    ELSE IF Cmp(sorted[1].torch, v.torch) >= 0
         THEN <<sorted[1]>> \o InsertDescending(Tail(sorted), v)
         ELSE <<v>> \o sorted

RECURSIVE sort_descending(_)
\* Mutant: the comparator is reversed (b.torch.cmp(&a.torch)).
sort_descending(vs) ==
    IF Len(vs) = 0 THEN <<>>
    ELSE InsertDescending(sort_descending(SubSeq(vs, 1, Len(vs) - 1)), vs[Len(vs)])

RECURSIVE InsertByTorch(_, _)
\* v placed after every element that does not compare greater (stable).
InsertByTorch(sorted, v) ==
    IF Len(sorted) = 0 THEN <<v>>
    ELSE IF Cmp(sorted[1].torch, v.torch) <= 0
         THEN <<sorted[1]>> \o InsertByTorch(Tail(sorted), v)
         ELSE <<v>> \o sorted

RECURSIVE sort_by_torch(_)
\* versions.sort_by(|a, b| a.torch.cmp(&b.torch)): a stable sort.
sort_by_torch(vs) ==
    IF Len(vs) = 0 THEN <<>>
    ELSE InsertByTorch(sort_by_torch(SubSeq(vs, 1, Len(vs) - 1)), vs[Len(vs)])

\* versions.last(): the element the caller takes as the resolved version.
last(vs) == IF Len(vs) = 0 THEN None ELSE Some(vs[Len(vs)])

-----------------------------------------------------------------------------
\* Inputs of resolve_versions.

MaxLines == 2   \* lines of the fetched listing

s_cp3 == <<"c", "p", "3">>
s_1_1 == <<"1", ".", "1">>
s_cu11 == <<"c", "u", "1", "1">>

ListingLines ==
    { AnchorLine(ArtifactHref(s_cpu, s_torch, s_1_13_1, s_cp310, s_cp310, s_linux_x86_64_whl, 0)),
      AnchorLine(ArtifactHref(s_cu117, s_torch, s_1_13_1_cu117, s_cp39, s_cp39, s_linux_x86_64_whl, 0)),
      AnchorLine(ArtifactHref(s_cu117_pypi_cudnn, s_torch, s_1_12_0, s_cp310, s_cp310, s_manylinux_whl, 0)),
      AnchorLine(ArtifactHref(s_cpu, s_torch, s_2_0_0, s_cp310, s_cp310, s_macosx_arm64_whl, 0)),
      AnchorLine(ArtifactHref(s_cpu, s_torchvision, s_1_13_1, s_cp310, s_cp310, s_linux_x86_64_whl, 0)),
      <<"<", "h", "t", "m", "l", ">">>,
      AnchorLine(s_cu117_pypi_cudnn) }

Listings == UNION { [1..n -> ListingLines] : n \in 0..MaxLines }

\* (env::consts::OS, env::consts::ARCH) of the builds considered.
Hosts == { <<s_linux, s_x86_64>>, <<s_macos, s_aarch64>> }

PythonConstraints == { None, Some(s_cp310), Some(s_cp3) }
TorchConstraints == { None, Some(s_1_1), Some(s_2_0_0) }
CudaConstraints == { None, Some(s_cpu), Some(s_cu11) }

-----------------------------------------------------------------------------
\* One call of VersionResolver::resolve_versions.

InitResolve ==
    /\ semantic_version = None
    /\ pc = "start"
    /\ \E h \in Hosts : computer_os = h[1] /\ computer_arch = h[2]
    /\ verbose \in BOOLEAN
    /\ NoParse /\ NoResolve /\ NoImage

\* Option<Vec<Version>> of the parsed lines: Panic as soon as one line panics.
filter_map_parse(lines) ==
    LET results == [i \in 1..Len(lines) |-> parse_from_html_tag(lines[i])]
    IN  IF \E i \in 1..Len(lines) : results[i].kind = "Panic" THEN Panic
        ELSE LET kept == SelectSeq(results, LAMBDA r : r.kind = "Some")
             IN  Some([i \in 1..Len(kept) |-> kept[i].value])

\* The call with its arguments, the listing fetch and the scan of its lines.
FetchListing ==
    /\ pc = "start"
    /\ \E pv \in PythonConstraints, tv \in TorchConstraints,
          cv \in CudaConstraints, listing \in Listings :
        LET result == JoinWith(listing, Newline)
            scanned == filter_map_parse(Split(result, Newline))
        IN  /\ python_version' = pv
            /\ torch_version' = tv
            /\ cuda_version' = cv
            /\ IF scanned.kind = "Panic"
               THEN /\ pc' = "panic"
                    /\ UNCHANGED <<versions, stages>>
               ELSE /\ pc' = "c0"
                    /\ versions' = SelectSeq(scanned.value, LAMBDA v : v.name = s_torch)
                    /\ stages' = <<versions'>>
    /\ UNCHANGED <<tag, parsed, computer_os, computer_arch, verbose,
                   version, response, fetches, image, semantic_version>>

\* reqwest::get(..).await.unwrap() / .text().await.unwrap() on a failed fetch.
FetchListingFails ==
    /\ pc = "start"
    /\ pc' = "fetch_error"
    /\ UNCHANGED <<tag, parsed, computer_os, computer_arch, python_version,
                   torch_version, cuda_version, versions, stages, verbose,
                   version, response, fetches, image, semantic_version>>

\* versions = self.filter_versions_by_os_and_arch(versions)
FilterOsArch ==
    /\ pc = "c0"
    /\ pc' = "c1"
    /\ versions' = filter_versions_by_os_and_arch(versions)
    /\ stages' = Append(stages, versions')
    /\ UNCHANGED <<tag, parsed, computer_os, computer_arch, python_version,
                   torch_version, cuda_version, verbose, version, response,
                   fetches, image, semantic_version>>

\* Mutant: without an interpreter constraint the candidates are left as they are.
FilterPythonUnpinned ==
    /\ pc = "c1"
    /\ pc' = "c2"
    /\ versions' = IF python_version = None THEN versions
                   ELSE filter_versions_by_specified_version(versions, python_version, "python")
    /\ stages' = Append(stages, versions')
    /\ UNCHANGED <<tag, parsed, computer_os, computer_arch, python_version,
                   torch_version, cuda_version, verbose, version, response,
                   fetches, image, semantic_version>>

\* The interpreter filter.
FilterPython ==
    /\ pc = "c1"
    /\ pc' = "c2"
    /\ versions' = filter_versions_by_specified_version(versions, python_version, "python")
    /\ stages' = Append(stages, versions')
    /\ UNCHANGED <<tag, parsed, computer_os, computer_arch, python_version,
                   torch_version, cuda_version, verbose, version, response,
                   fetches, image, semantic_version>>

\* Mutant: the library filter is applied to the unfiltered candidates.
FilterTorchOfAll ==
    /\ pc = "c2"
    /\ pc' = "c3"
    /\ versions' = filter_versions_by_specified_version(stages[1], torch_version, "torch")
    /\ stages' = Append(stages, versions')
    /\ UNCHANGED <<tag, parsed, computer_os, computer_arch, python_version,
                   torch_version, cuda_version, verbose, version, response,
                   fetches, image, semantic_version>>

\* The library filter.
FilterTorch ==
    /\ pc = "c2"
    /\ pc' = "c3"
    /\ versions' = filter_versions_by_specified_version(versions, torch_version, "torch")
    /\ stages' = Append(stages, versions')
    /\ UNCHANGED <<tag, parsed, computer_os, computer_arch, python_version,
                   torch_version, cuda_version, verbose, version, response,
                   fetches, image, semantic_version>>

\* The accelerator filter.
FilterCuda ==
    /\ pc = "c3"
    /\ pc' = "c4"
    /\ versions' = filter_versions_by_specified_version(versions, cuda_version, "accelerator")
    /\ stages' = Append(stages, versions')
    /\ UNCHANGED <<tag, parsed, computer_os, computer_arch, python_version,
                   torch_version, cuda_version, verbose, version, response,
                   fetches, image, semantic_version>>

\* Mutant: the sorted vector is returned without the emptiness check.
SortAndReturnUnchecked ==
    /\ pc = "c4"
    /\ versions' = sort_by_torch(versions)
    /\ pc' = "returned"
    /\ UNCHANGED <<tag, parsed, computer_os, computer_arch, python_version,
                   torch_version, cuda_version, stages, verbose, version,
                   response, fetches, image, semantic_version>>

\* The sort, the emptiness check with exit(1), and the return.
SortAndReturn ==
    /\ pc = "c4"
    /\ versions' = sort_by_torch(versions)
    /\ pc' = IF Len(versions') = 0 THEN "exit1" ELSE "returned"
    /\ UNCHANGED <<tag, parsed, computer_os, computer_arch, python_version,
                   torch_version, cuda_version, stages, verbose, version,
                   response, fetches, image, semantic_version>>

NextResolve ==
    \/ FetchListing
    \/ FetchListingFails
    \/ FilterOsArch
    \/ FilterPython
    \/ FilterTorch
    \/ FilterCuda
    \/ SortAndReturn

SpecResolve == InitResolve /\ [][NextResolve]_vars

-----------------------------------------------------------------------------
\* Properties of the filter chain.

\* c occurs in s as a contiguous substring.
HasSubstring(s, c) ==
    \E i \in 1..(Len(s) + 1) : i + Len(c) - 1 <= Len(s) /\ SubSeq(s, i, i + Len(c) - 1) = c

\* a is obtained from b by deleting elements (order kept, nothing altered).
IsSubList(a, b) ==
    \E pick \in SUBSET (1..Len(b)) :
        LET marked == [i \in 1..Len(b) |-> <<i \in pick, b[i]>>]
            kept == SelectSeq(marked, LAMBDA m : m[1])
        IN  /\ Len(a) = Len(kept)
            /\ \A k \in 1..Len(a) : a[k] = kept[k][2]

Occurrences(seq, v) == Cardinality({ i \in 1..Len(seq) : seq[i] = v })

IsPermutation(a, b) ==
    /\ Len(a) = Len(b)
    /\ \A v \in Range(a) \cup Range(b) : Occurrences(a, v) = Occurrences(b, v)

\* The three dimension filters: stages[d + 1] is the input of filter d and
\* stages[d + 2] its output (stages[1] is C0, stages[2] is C1).
Dimensions == 1..3
FieldOf(d) == <<"python", "torch", "accelerator">>[d]
ConstraintOf(d) == <<python_version, torch_version, cuda_version>>[d]
Applied(d) == Len(stages) >= d + 2
InputOf(d) == stages[d + 1]
OutputOf(d) == stages[d + 2]

TagsOf(vs, field) == { vs[i][field] : i \in 1..Len(vs) }

\* The lexicographic maximum of a non-empty set of tags.
LexMax(tags) == CHOOSE m \in tags : \A t \in tags : Cmp(t, m) <= 0

Finished == pc \in {"returned", "exit1"}

\* C3: after the filters the survivors are sorted by library version; an empty
\* set ends in exit(1), otherwise the last element is returned-from and carries
\* the lexicographic maximum library version; no empty result is returned.
ResolveOneOrFail ==
    /\ pc = "exit1" => stages[5] = <<>> /\ versions = <<>>
    /\ pc = "returned" =>
        /\ stages[5] # <<>>
        /\ IsPermutation(versions, stages[5])
        /\ \A i, j \in 1..Len(versions) :
              i < j => Cmp(versions[i].torch, versions[j].torch) <= 0
        /\ last(versions).kind = "Some"
        /\ last(versions).value.torch = LexMax(TagsOf(stages[5], "torch"))

\* Two survivors with different library versions were reordered by the sort.
ResolveOneOrFailWitness ==
    /\ pc = "returned"
    /\ Len(versions) >= 2
    /\ versions # stages[5]
    /\ versions[1].torch # last(versions).value.torch

\* C4: under a supplied constraint the survivors are exactly the candidates
\* whose tag contains the constraint as a substring.
SubstringConstraint ==
    \A d \in Dimensions :
        (Applied(d) /\ ConstraintOf(d).kind = "Some") =>
            /\ \A v \in Range(OutputOf(d)) :
                  HasSubstring(v[FieldOf(d)], ConstraintOf(d).value)
            /\ \A v \in Range(InputOf(d)) :
                  HasSubstring(v[FieldOf(d)], ConstraintOf(d).value)
                      => v \in Range(OutputOf(d))

\* A constraint kept a tag that merely contains it and dropped another tag.
SubstringConstraintWitness ==
    \E d \in Dimensions :
        /\ Applied(d)
        /\ ConstraintOf(d).kind = "Some"
        /\ Len(OutputOf(d)) < Len(InputOf(d))
        /\ \E v \in Range(OutputOf(d)) : v[FieldOf(d)] # ConstraintOf(d).value

\* C5: without a constraint the survivors of a non-empty list are non-empty
\* and each tag contains the lexicographic maximum of the pre-filter tags.
LatestPinning ==
    \A d \in Dimensions :
        (Applied(d) /\ ConstraintOf(d) = None /\ InputOf(d) # <<>>) =>
            /\ OutputOf(d) # <<>>
            /\ \A v \in Range(OutputOf(d)) :
                  HasSubstring(v[FieldOf(d)], LexMax(TagsOf(InputOf(d), FieldOf(d))))

\* An unconstrained filter saw two different tags and dropped a candidate.
LatestPinningWitness ==
    \E d \in Dimensions :
        /\ Applied(d)
        /\ ConstraintOf(d) = None
        /\ Cardinality(TagsOf(InputOf(d), FieldOf(d))) >= 2
        /\ Len(OutputOf(d)) < Len(InputOf(d))

\* C7: a candidate set that is empty on entry to a dimension filter is empty
\* after it and after every later stage, and the call ends in exit(1).
EmptyChainTermination ==
    \A d \in Dimensions :
        (Applied(d) /\ InputOf(d) = <<>>) =>
            /\ \A j \in (d + 2)..Len(stages) : stages[j] = <<>>
            /\ pc \in {"c4", "returned", "exit1"} => versions = <<>>
            /\ pc # "returned"
            /\ Finished => pc = "exit1"

\* A set emptied by the interpreter filter reached exit(1).
EmptyChainTerminationWitness ==
    /\ pc = "exit1"
    /\ stages[2] # <<>>
    /\ stages[3] = <<>>

\* C8: each stage's output is a sub-list of its input, so the candidate count
\* never grows.
MonotonicNarrowing ==
    \A i \in 1..(Len(stages) - 1) :
        /\ IsSubList(stages[i + 1], stages[i])
        /\ Len(stages[i + 1]) <= Len(stages[i])

\* The chain ran to its end, dropped a candidate and kept one.
MonotonicNarrowingWitness ==
    /\ Len(stages) = 5
    /\ Len(stages[5]) >= 1
    /\ Len(stages[5]) < Len(stages[1])

\* C10: an unconstrained filter leaves a list that is homogeneous in its
\* dimension unchanged.
HomogeneousUnchanged ==
    \A d \in Dimensions :
        (Applied(d) /\ ConstraintOf(d) = None
            /\ Cardinality(TagsOf(InputOf(d), FieldOf(d))) <= 1) =>
                OutputOf(d) = InputOf(d)

\* An unconstrained filter saw two candidates sharing one tag.
HomogeneousUnchangedWitness ==
    \E d \in Dimensions :
        /\ Applied(d)
        /\ ConstraintOf(d) = None
        /\ Len(InputOf(d)) >= 2
        /\ Cardinality(TagsOf(InputOf(d), FieldOf(d))) = 1
        /\ OutputOf(d) = InputOf(d)

-----------------------------------------------------------------------------
\* VersionResolver::resolve_image_tag

\* Version::get_accelerator_semantic_version: "cpu", or the byte slices
\* [0..2] and [2..3] of the tag without "cu"; a slice past the end panics.
get_accelerator_semantic_version(v) ==
    IF v.accelerator = s_cpu THEN Some(s_cpu)
    ELSE LET cuda == Replace(v.accelerator, s_cu, <<>>)
         IN  IF Len(cuda) < 3 THEN Panic
             ELSE Some(SubSeq(cuda, 1, 2) \o s_dot \o SubSeq(cuda, 3, 3))

\* Mutant: the sentinel is looked for in the os tag.
is_cpu_by_os(v) == v.os = s_cpu

\* version.accelerator == "cpu"
is_cpu(v) == v.accelerator = s_cpu

RECURSIVE max_name(_)
\* Iterator::max_by over the tag names: the last of the maximal names.
max_name(names) ==
    IF Len(names) = 1 THEN names[1]
    ELSE LET best == max_name(SubSeq(names, 1, Len(names) - 1))
             final == names[Len(names)]
         IN  IF Cmp(final, best) >= 0 THEN final ELSE best

\* Mutant: the first name with the version prefix is taken (find).
first_image_tag(results, semantic) ==
    LET tags == SelectSeq(results, LAMBDA t : StartsWith(t, semantic))
    IN  IF Len(tags) = 0 THEN None ELSE Some(tags[1])

\* The filter on prefix, "ubuntu" and "devel", then max_by on the name.
select_image_tag(results, semantic) ==
    LET tags == SelectSeq(results, LAMBDA t :
                    StartsWith(t, semantic) /\ Contains(t, s_ubuntu) /\ Contains(t, s_devel))
    IN  IF Len(tags) = 0 THEN None ELSE Some(max_name(tags))

-----------------------------------------------------------------------------
\* Inputs of resolve_image_tag.

MaxTags == 3   \* entries of the registry document's results array

s_11_7 == <<"1", "1", ".", "7">>
s_11_8 == <<"1", "1", ".", "8">>
t_1170_devel == <<"1", "1", ".", "7", ".", "0", "-", "d", "e", "v", "e", "l", "-", "u", "b", "u", "n", "t", "u", "2", "2", ".", "0", "4">>
t_1171_devel == <<"1", "1", ".", "7", ".", "1", "-", "d", "e", "v", "e", "l", "-", "u", "b", "u", "n", "t", "u", "2", "2", ".", "0", "4">>
t_1170_runtime == <<"1", "1", ".", "7", ".", "0", "-", "r", "u", "n", "t", "i", "m", "e", "-", "u", "b", "u", "n", "t", "u", "2", "2", ".", "0", "4">>
t_1180_devel == <<"1", "1", ".", "8", ".", "0", "-", "d", "e", "v", "e", "l", "-", "u", "b", "u", "n", "t", "u", "2", "2", ".", "0", "4">>
t_1171_centos == <<"1", "1", ".", "7", ".", "1", "-", "d", "e", "v", "e", "l", "-", "c", "e", "n", "t", "o", "s", "7">>

TagNames == { t_1170_devel, t_1171_devel, t_1170_runtime, t_1180_devel, t_1171_centos }

TagLists == UNION { [1..n -> TagNames] : n \in 0..MaxTags }

Example5Results == <<t_1170_devel, t_1171_devel, t_1170_runtime>>

\* Resolved versions handed to resolve_image_tag.
ImageVersions ==
    { [name |-> s_torch, torch |-> s_1_13_1, python |-> s_cp310,
       accelerator |-> a, os |-> s_linux_x86_64] :
        a \in { s_cpu, s_cu117, s_cu118, s_cu92 } }

-----------------------------------------------------------------------------
\* One call of VersionResolver::resolve_image_tag(&version).

InitImage ==
    /\ semantic_version = None
    /\ pc = "start"
    /\ verbose \in BOOLEAN
    /\ version \in ImageVersions
    /\ response = None
    /\ fetches = 0
    /\ image = None
    /\ computer_os = <<>> /\ computer_arch = <<>>
    /\ NoParse /\ NoResolve

\* The CPU branch: the constant is returned at once.
ResolveCpuImage ==
    /\ pc = "start"
    /\ is_cpu(version)
    /\ image' = Some(s_ubuntu_22_04)
    /\ pc' = "returned"
    /\ UNCHANGED <<tag, parsed, computer_os, computer_arch, python_version,
                   torch_version, cuda_version, versions, stages, verbose,
                   version, response, fetches, semantic_version>>

\* The accelerator branch, when the semantic version cannot be sliced: the
\* println! before the fetch panics.
SemanticVersionPanics ==
    /\ pc = "start"
    /\ ~is_cpu(version)
    /\ get_accelerator_semantic_version(version) = Panic
    /\ pc' = "panic"
    /\ UNCHANGED <<tag, parsed, computer_os, computer_arch, python_version,
                   torch_version, cuda_version, versions, stages, verbose,
                   version, response, fetches, image, semantic_version>>

\* The accelerator branch, when the GET fails or its body is not the
\* registry's tag document: one of the unwrap() calls on it panics.
FetchTagsFails ==
    /\ pc = "start"
    /\ ~is_cpu(version)
    /\ get_accelerator_semantic_version(version) # Panic
    /\ fetches' = fetches + 1
    /\ pc' = "fetch_error"
    /\ UNCHANGED <<tag, parsed, computer_os, computer_arch, python_version,
                   torch_version, cuda_version, versions, stages, verbose,
                   version, response, image, semantic_version>>

\* The accelerator branch with a tag document: filter, max_by, exit(1) when
\* nothing is left, "nvidia/cuda:<name>" otherwise.
ResolveCudaImage ==
    /\ pc = "start"
    /\ ~is_cpu(version)
    /\ get_accelerator_semantic_version(version) # Panic
    /\ \E results \in TagLists :
        LET semantic == get_accelerator_semantic_version(version).value
            found == select_image_tag(results, semantic)
        IN  /\ response' = [count |-> Len(results), results |-> results]
            /\ fetches' = fetches + 1
            /\ IF found = None
               THEN /\ pc' = "exit1"
                    /\ image' = image
               ELSE /\ pc' = "returned"
                    /\ image' = Some(s_nvidia_cuda \o found.value)
    /\ UNCHANGED <<tag, parsed, computer_os, computer_arch, python_version,
                   torch_version, cuda_version, versions, stages, verbose,
                   version, semantic_version>>

NextImage ==
    \/ ResolveCpuImage
    \/ SemanticVersionPanics
    \/ FetchTagsFails
    \/ ResolveCudaImage

SpecImage == InitImage /\ [][NextImage]_vars

\* Accelerator tag, and the dotted semantic version the spec gives it.
SemanticVersions == { <<s_cu117, s_11_7>>, <<s_cu118, s_11_8>> }

\* The names of the document that the spec makes eligible for a version.
Eligible(results, semantic) ==
    { n \in Range(results) :
        /\ SubSeq(n, 1, Len(semantic)) = semantic
        /\ HasSubstring(n, s_ubuntu)
        /\ HasSubstring(n, s_devel) }

\* C6: for a non-CPU accelerator the result is "nvidia/cuda:" followed by the
\* lexicographic maximum of the eligible names of `results`; with no eligible
\* name the call ends in exit(1) and returns no image.
ImageTagSelection ==
    \A sv \in SemanticVersions :
        (version # None /\ version.accelerator = sv[1] /\ response # None) =>
            LET eligible == Eligible(response.results, sv[2])
            IN  /\ pc \in {"returned", "exit1"}
                /\ pc = "exit1" <=> eligible = {}
                /\ pc = "exit1" => image = None
                /\ pc = "returned" => image = Some(s_nvidia_cuda \o LexMax(eligible))

\* Example 5 of the spec has been resolved.
ImageTagSelectionWitness ==
    /\ pc = "returned"
    /\ version.accelerator = s_cu117
    /\ response.results = Example5Results
    /\ image = Some(s_nvidia_cuda \o t_1171_devel)

\* C9: for the accelerator tag "cpu" the call returns "ubuntu:22.04" and
\* issues no registry fetch; a fetch is issued only for another tag.
CpuImageWithoutFetch ==
    /\ (version # None /\ version.accelerator = s_cpu) =>
        /\ fetches = 0
        /\ response = None
        /\ pc \in {"start", "returned"}
        /\ pc = "returned" => image = Some(s_ubuntu_22_04)
    /\ fetches > 0 => version.accelerator # s_cpu

\* The CPU branch has returned.
CpuImageWithoutFetchWitness ==
    /\ pc = "returned"
    /\ version.accelerator = s_cpu
    /\ image = Some(s_ubuntu_22_04)
    /\ fetches = 0

-----------------------------------------------------------------------------
\* The two filters of VersionResolver, each called once on a candidate list.

MaxCandidates == 3   \* artifacts in the candidate list

s_1_9_1 == <<"1", ".", "9", ".", "1">>
s_1_11_9_1 == <<"1", ".", "1", "1", ".", "9", ".", "1">>
s_linux2014_aarch64 == <<"l", "i", "n", "u", "x", "2", "0", "1", "4", "_", "a", "a", "r", "c", "h", "6", "4">>

Artifact(t, p, a, o) ==
    [name |-> s_torch, torch |-> t, python |-> p, accelerator |-> a, os |-> o]

FilterCandidates ==
    { Artifact(s_1_12_0, s_cp310, s_cpu, s_linux_x86_64),
      Artifact(s_1_13_0, s_cp39, s_cu117, s_linux_x86_64),
      Artifact(s_1_13_1, s_cp310, s_cu118, s_macos_aarch64),
      Artifact(s_1_9_1, s_cp39, s_cu92, s_linux2014_aarch64),
      Artifact(s_1_11_9_1, s_cp310, s_cu117, s_windows_x86_64) }

CandidateLists == UNION { [1..n -> FilterCandidates] : n \in 0..MaxCandidates }

\* (env::consts::OS, env::consts::ARCH) of the builds considered.
FilterHosts == { <<s_linux, s_x86_64>>, <<s_macos, s_aarch64>>, <<s_linux, s_aarch64>> }

InitFilter ==
    /\ pc = "candidates"
    /\ \E h \in FilterHosts : computer_os = h[1] /\ computer_arch = h[2]
    /\ verbose = FALSE
    /\ versions \in CandidateLists
    /\ stages = <<>>
    /\ python_version = None
    /\ torch_version = None
    /\ cuda_version = None
    /\ semantic_version = None
    /\ NoParse /\ NoImage

\* self.filter_versions_by_os_and_arch(versions)
CallFilterOsArch ==
    /\ pc = "candidates"
    /\ pc' = "os_arch"
    /\ versions' = filter_versions_by_os_and_arch(versions)
    /\ stages' = <<versions, versions'>>
    /\ UNCHANGED <<tag, parsed, computer_os, computer_arch, python_version,
                   torch_version, cuda_version, verbose, version, response,
                   fetches, image, semantic_version>>

\* self.filter_versions_by_specified_version(versions, python_version, |v| &v.python)
CallFilterPython ==
    /\ pc = "candidates"
    /\ pc' = "python"
    /\ \E c \in PythonConstraints :
        /\ python_version' = c
        /\ versions' = filter_versions_by_specified_version(versions, c, "python")
    /\ stages' = <<versions, versions'>>
    /\ UNCHANGED <<tag, parsed, computer_os, computer_arch, torch_version,
                   cuda_version, verbose, version, response, fetches, image,
                   semantic_version>>

\* self.filter_versions_by_specified_version(versions, torch_version, |v| &v.torch)
CallFilterTorch ==
    /\ pc = "candidates"
    /\ pc' = "torch"
    /\ \E c \in TorchConstraints :
        /\ torch_version' = c
        /\ versions' = filter_versions_by_specified_version(versions, c, "torch")
    /\ stages' = <<versions, versions'>>
    /\ UNCHANGED <<tag, parsed, computer_os, computer_arch, python_version,
                   cuda_version, verbose, version, response, fetches, image,
                   semantic_version>>

\* self.filter_versions_by_specified_version(versions, cuda_version, |v| &v.accelerator)
CallFilterCuda ==
    /\ pc = "candidates"
    /\ pc' = "accelerator"
    /\ \E c \in CudaConstraints :
        /\ cuda_version' = c
        /\ versions' = filter_versions_by_specified_version(versions, c, "accelerator")
    /\ stages' = <<versions, versions'>>
    /\ UNCHANGED <<tag, parsed, computer_os, computer_arch, python_version,
                   torch_version, verbose, version, response, fetches, image,
                   semantic_version>>

NextFilter ==
    \/ CallFilterOsArch
    \/ CallFilterPython
    \/ CallFilterTorch
    \/ CallFilterCuda

SpecFilter == InitFilter /\ [][NextFilter]_vars

\* The dimension filter that was called, its constraint, input and output.
DimensionCalled == pc \in {"python", "torch", "accelerator"}
CalledConstraint ==
    IF pc = "python" THEN python_version
    ELSE IF pc = "torch" THEN torch_version ELSE cuda_version
Unconstrained == DimensionCalled /\ CalledConstraint = None /\ stages[1] # <<>>
PreFilterMax == LexMax(TagsOf(stages[1], pc))

\* t contains m and is longer than m.
ProperlyContains(t, m) == HasSubstring(t, m) /\ Len(t) > Len(m)

Example3Versions == { s_1_12_0, s_1_13_0, s_1_13_1 }

\* C11 as stated: after an unconstrained filter every survivor's tag equals
\* the lexicographic maximum of the pre-filter tags.
SurvivorsEqualLatest ==
    Unconstrained => \A v \in Range(stages[2]) : v[pc] = PreFilterMax

\* C11 as amended: after an unconstrained filter every candidate whose tag
\* contains the maximum survives, every survivor's tag is the maximum or
\* properly contains it, and the survivors are value-homogeneous when no pre-filter tag
\* properly contains the maximum, as for {1.12.0, 1.13.0, 1.13.1}.
SurvivorsContainLatest ==
    Unconstrained =>
        /\ \A v \in Range(stages[1]) :
              HasSubstring(v[pc], PreFilterMax) => v \in Range(stages[2])
        /\ \A v \in Range(stages[2]) :
              v[pc] = PreFilterMax \/ ProperlyContains(v[pc], PreFilterMax)
        /\ (\A v \in Range(stages[1]) : ~ProperlyContains(v[pc], PreFilterMax))
              => TagsOf(stages[2], pc) = { PreFilterMax }
        /\ (pc = "torch" /\ TagsOf(stages[1], "torch") = Example3Versions)
              => TagsOf(stages[2], "torch") = { s_1_13_1 }

\* Example 3 of the spec has been filtered.
SurvivorsContainLatestWitness ==
    /\ pc = "torch"
    /\ torch_version = None
    /\ TagsOf(stages[1], "torch") = Example3Versions
    /\ TagsOf(stages[2], "torch") = { s_1_13_1 }

\* The artifact's os tag names the running OS / the running architecture.
NamesOs(v) == HasSubstring(v.os, computer_os)
NamesArch(v) == HasSubstring(v.os, computer_arch)

\* C14: the platform filter keeps exactly the artifacts whose os tag contains
\* both the running OS name and the running architecture name; an artifact
\* matching one of them or neither is dropped.
PlatformFilterConjunctive ==
    pc = "os_arch" =>
        /\ IsSubList(stages[2], stages[1])
        /\ \A v \in Range(stages[1]) :
              /\ (NamesOs(v) /\ NamesArch(v))
                    => Occurrences(stages[2], v) = Occurrences(stages[1], v)
              /\ ~(NamesOs(v) /\ NamesArch(v)) => v \notin Range(stages[2])

\* A list with an artifact matching both names, one matching only the OS and
\* one matching only the architecture was filtered down to the first.
PlatformFilterConjunctiveWitness ==
    /\ pc = "os_arch"
    /\ \E v \in Range(stages[1]) : NamesOs(v) /\ NamesArch(v) /\ v.os # computer_os \o computer_arch
    /\ \E v \in Range(stages[1]) : NamesOs(v) /\ ~NamesArch(v)
    /\ \E v \in Range(stages[1]) : ~NamesOs(v) /\ NamesArch(v)
    /\ Len(stages[2]) = 1

-----------------------------------------------------------------------------
\* Version::get_python_semantic_version and get_accelerator_semantic_version,
\* each called once on a parsed artifact.

s_cp == <<"c", "p">>

\* Mutant: the minor version is everything after the first character.
get_python_semantic_version_long_minor(v) ==
    LET python == Replace(v.python, s_cp, <<>>)
    IN  IF Len(python) < 2 THEN Panic
        ELSE Some(<<python[1]>> \o s_dot \o SubSeq(python, 2, Len(python)))

\* replace("cp", ""), then chars().nth(0).unwrap() and chars().nth(1).unwrap().
get_python_semantic_version(v) ==
    LET python == Replace(v.python, s_cp, <<>>)
    IN  IF Len(python) < 1 THEN Panic            \* nth(0).unwrap()
        ELSE IF Len(python) < 2 THEN Panic       \* nth(1).unwrap()
        ELSE Some(<<python[1]>> \o s_dot \o <<python[2]>>)

MaxTagPieces == 4   \* pieces a python or accelerator tag is assembled from

PythonDigits == { "0", "1", "3" }
AcceleratorDigits == { "1", "2", "7", "9" }

RECURSIVE Concat(_)
\* The pieces written one after the other.
Concat(pieces) == IF Len(pieces) = 0 THEN <<>> ELSE pieces[1] \o Concat(Tail(pieces))

\* A python field: "cp" and digits in any order.
PythonPieces == UNION { [1..n -> { s_cp } \cup { <<c>> : c \in PythonDigits }] : n \in 0..MaxTagPieces }
\* The digits that follow "cu" in an accelerator directory (cu92, cu117, ...).
AcceleratorDigitStrings == UNION { [1..n -> AcceleratorDigits] : n \in 2..MaxTagPieces }

\* The pieces other than "cp".
DigitsOf(pieces) == Concat(SelectSeq(pieces, LAMBDA x : x # s_cp))

ArtifactOf(a, p) ==
    parse_from_html_tag(AnchorLine(ArtifactHref(a, s_torch, s_1_13_1, p, p, s_linux_x86_64_whl, 0))).value

\* Artifacts the parser produces: every python field with the cpu directory,
\* every accelerator directory with cp310.
SemanticInputs ==
    { ArtifactOf(s_cpu, Concat(ps)) : ps \in PythonPieces }
        \cup { ArtifactOf(s_cu \o d, s_cp310) : d \in AcceleratorDigitStrings }
        \cup { ArtifactOf(s_cu117_pypi_cudnn, s_cp310) }

InitSemantic ==
    /\ pc = "version"
    /\ version \in SemanticInputs
    /\ semantic_version = None
    /\ response = None
    /\ fetches = 0
    /\ image = None
    /\ NoHost /\ NoParse /\ NoResolve

\* version.get_python_semantic_version()
CallPythonSemanticVersion ==
    /\ pc = "version"
    /\ semantic_version' = get_python_semantic_version(version)
    /\ pc' = IF semantic_version' = Panic THEN "python_panic" ELSE "python"
    /\ UNCHANGED <<tag, parsed, computer_os, computer_arch, python_version,
                   torch_version, cuda_version, versions, stages, verbose,
                   version, response, fetches, image>>

\* version.get_accelerator_semantic_version()
CallAcceleratorSemanticVersion ==
    /\ pc = "version"
    /\ semantic_version' = get_accelerator_semantic_version(version)
    /\ pc' = IF semantic_version' = Panic THEN "accelerator_panic" ELSE "accelerator"
    /\ UNCHANGED <<tag, parsed, computer_os, computer_arch, python_version,
                   torch_version, cuda_version, versions, stages, verbose,
                   version, response, fetches, image>>

NextSemantic ==
    \/ CallPythonSemanticVersion
    \/ CallAcceleratorSemanticVersion

SpecSemantic == InitSemantic /\ [][NextSemantic]_vars

PythonCalled == pc \in {"python", "python_panic"}
AcceleratorCalled == pc \in {"accelerator", "accelerator_panic"}

\* C12 as stated: the python tag without its "cp" prefix is sliced into a
\* two-character major and a two-character minor, and every tag has a result.
PythonTwoCharacterFields ==
    PythonCalled =>
        /\ pc = "python"
        /\ \A ps \in PythonPieces :
              (version.python = s_cp \o DigitsOf(ps)) =>
                  semantic_version = Some(SubSeq(DigitsOf(ps), 1, 2) \o s_dot
                                            \o SubSeq(DigitsOf(ps), 3, 4))

\* C12 as amended: with every "cp" removed, the result is the first remaining
\* character, a dot and the second remaining character; the call returns
\* exactly when at least two characters remain and panics otherwise.
PythonOneCharacterFields ==
    PythonCalled =>
        \A ps \in PythonPieces :
            (version.python = Concat(ps)) =>
                IF Len(DigitsOf(ps)) >= 2
                THEN /\ pc = "python"
                     /\ semantic_version = Some(<<DigitsOf(ps)[1], ".", DigitsOf(ps)[2]>>)
                ELSE /\ pc = "python_panic"
                     /\ semantic_version = Panic

\* cp310 has been given the semantic version 3.1.
PythonOneCharacterFieldsWitness ==
    /\ pc = "python"
    /\ version.python = s_cp310
    /\ semantic_version = Some(<<"3", ".", "1">>)

\* C13: "cpu" gives "cpu"; any other accepted tag gives the two characters
\* after "cu", a dot and the whole remainder, and the call never fails.
AcceleratorWholeRemainder ==
    AcceleratorCalled =>
        /\ pc = "accelerator"
        /\ version.accelerator = s_cpu => semantic_version = Some(s_cpu)
        /\ \A d \in AcceleratorDigitStrings :
              (version.accelerator = s_cu \o d) =>
                  semantic_version = Some(SubSeq(d, 1, 2) \o s_dot \o SubSeq(d, 3, Len(d)))

-----------------------------------------------------------------------------
\* Greedy pinning across the chain of resolve_versions.

\* The python tag the interpreter filter pins when it has no constraint.
PinnedPython == LexMax(TagsOf(stages[2], "python"))

\* v meets the library and accelerator constraints that were supplied.
MeetsLaterConstraints(v) ==
    /\ torch_version.kind = "Some" => HasSubstring(v.torch, torch_version.value)
    /\ cuda_version.kind = "Some" => HasSubstring(v.accelerator, cuda_version.value)

\* C15: the filters run in the order interpreter, library, accelerator; with
\* no interpreter constraint every candidate after the interpreter filter, up
\* to the final result, has a python tag containing the maximum python tag of
\* C1; later stages only delete from the pinned subset, and an emptied set
\* stays empty and ends in exit(1).
GreedyPinning ==
    /\ \A d \in Dimensions :
          Applied(d) =>
              OutputOf(d) = filter_versions_by_specified_version(
                                InputOf(d), ConstraintOf(d), FieldOf(d))
    /\ (python_version = None /\ Applied(1) /\ stages[2] # <<>>) =>
          /\ \A j \in 3..Len(stages) :
                /\ IsSubList(stages[j], stages[3])
                /\ \A v \in Range(stages[j]) : HasSubstring(v.python, PinnedPython)
          /\ Finished =>
                /\ \A v \in Range(versions) :
                      v \in Range(stages[3]) /\ HasSubstring(v.python, PinnedPython)
                /\ stages[5] = <<>> => pc = "exit1" /\ versions = <<>>

\* The pinned subset was emptied by a later constraint and the call ended in
\* exit(1), although a candidate of C1 with another python tag met the
\* library and accelerator constraints.
GreedyPinningWitness ==
    /\ pc = "exit1"
    /\ python_version = None
    /\ cuda_version.kind = "Some"
    /\ stages[3] # <<>>
    /\ stages[5] = <<>>
    /\ \E v \in Range(stages[2]) :
          /\ ~HasSubstring(v.python, PinnedPython)
          /\ MeetsLaterConstraints(v)

====
